---- MODULE Spec2Model ----
(***************************************************************************)
(* Blogicum (blog/views.py, blog/models.py, blog/forms.py, blog/admin.py): *)
(* the request handlers of the blog over the relational store.  One action *)
(* per handler; every action is the whole request, from dispatch to the    *)
(* response.  `resp` is the response of the request handled by the last    *)
(* step, together with the request it answers.                             *)
(***************************************************************************)
EXTENDS Integers, Sequences, FiniteSets, TLC

\* ---------------------------------------------------------------- bounds
\* the clock runs over 0..MaxTime
MaxTime == 1
\* posts created in a run of SpecPosts, of SpecSite, of SpecComments
MaxPosts == 1
MaxSitePosts == 2
MaxThreadPosts == 2
\* comments created in a run of SpecComments
MaxComments == 1

\* ------------------------------------------------------------- universes
Users == {"u1", "u2"}
Anonymous == "anon"
Requesters == Users \cup {Anonymous}
Slugs == {"s1"}
Titles == {"t1", "t2"}
Texts == {"x1", "x2"}
NULL == "NULL"
Times == 0..MaxTime
PostIds == 1..MaxPosts
SitePostIds == 1..MaxSitePosts
ThreadPostIds == 1..MaxThreadPosts
CommentIds == 1..MaxComments

VARIABLES
    now,          \* the wall clock read by timezone.now()
    importTime,   \* timezone.now() as evaluated in the class body of IndexListView
    categories,   \* Category rows, keyed by their unique slug: slug -> is_published
    posts,        \* Post rows: pk -> row
    nextPost,     \* next primary key of Post
    comments,     \* Comment rows: pk -> row
    nextComment,  \* next primary key of Comment
    created,      \* for each stored comment, the add_comment request that made it
    resp          \* the request handled by the last step and its response

vars == <<now, importTime, categories, posts, nextPost, comments, nextComment,
          created, resp>>

\* ------------------------------------------------------------- responses
NoResponse ==
    [view |-> "none", user |-> Anonymous, post |-> 0, comment |-> 0,
     slug |-> NULL, kind |-> "none", target |-> 0, items |-> <<>>]

Response(view, user, post, comment, slug, kind, target, items) ==
    [view |-> view, user |-> user, post |-> post, comment |-> comment,
     slug |-> slug, kind |-> kind, target |-> target, items |-> items]

\* ------------------------------------------------------------ the store
Init ==
    /\ now = 0
    /\ importTime = 0
    /\ categories = [s \in {} |-> TRUE]
    /\ posts = [p \in {} |-> 0]
    /\ nextPost = 1
    /\ comments = [c \in {} |-> 0]
    /\ nextComment = 1
    /\ created = [c \in {} |-> 0]
    /\ resp = NoResponse

\* category__is_published=True: a join, so a post with no category has no match
CategoryIsPublished(p) ==
    /\ posts[p].category # NULL
    /\ categories[posts[p].category]

\* order_by('-pub_date'); rows of equal pub_date come in primary-key order
RECURSIVE OrderByPubDateDesc(_)
OrderByPubDateDesc(S) ==
    IF S = {} THEN <<>>
    ELSE LET first == CHOOSE p \in S :
                         \A q \in S : \/ posts[p].pub_date > posts[q].pub_date
                                      \/ /\ posts[p].pub_date = posts[q].pub_date
                                         /\ p <= q
         IN <<first>> \o OrderByPubDateDesc(S \ {first})

Range(s) == {s[i] : i \in 1..Len(s)}

\* paginate_by of the list views; a request with no page number gets page 1
paginate_by == 10

FirstPage(s) == SubSeq(s, 1, IF Len(s) < paginate_by THEN Len(s) ELSE paginate_by)

\* ------------------------------------------------------------ the forms
\* a submission the form rejects (is_valid() is false)
InvalidPost == [is_valid |-> FALSE]
InvalidComment == "invalid"
Locations == {NULL}

\* PostForm: every field of Post but author and created_at; category is a
\* required choice among the stored Category rows
PostForm ==
    [title : Titles, text : Texts, pub_date : Times, is_published : BOOLEAN,
     category : DOMAIN categories, location : Locations]

\* CommentForm: the text alone
CommentForm == Texts

PostRow(author, data) ==
    [author |-> author, title |-> data.title, text |-> data.text,
     pub_date |-> data.pub_date, is_published |-> data.is_published,
     category |-> data.category, location |-> data.location]

\* on_delete=CASCADE of Comment.post
CommentsOff(pid) == {c \in DOMAIN comments : comments[c].post # pid}

Restrict(f, S) == [x \in S |-> f[x]]

UNCHANGED_Store ==
    UNCHANGED <<categories, posts, nextPost, comments, nextComment, created>>

\* ----------------------------------------------------- clock and process
Tick ==
    /\ now < MaxTime
    /\ now' = now + 1
    /\ resp' = NoResponse
    /\ UNCHANGED <<importTime>>
    /\ UNCHANGED_Store

\* the server process starts again: blog/views.py is imported and the class
\* body of IndexListView evaluates timezone.now() once more
Restart ==
    /\ importTime # now
    /\ importTime' = now
    /\ resp' = NoResponse
    /\ UNCHANGED <<now>>
    /\ UNCHANGED_Store

\* -------------------------------------------------------- admin: Category
AdminCategoryAdd(s, pub) ==
    /\ s \notin DOMAIN categories
    /\ categories' = [x \in DOMAIN categories \cup {s} |->
                         IF x = s THEN pub ELSE categories[x]]
    /\ resp' = NoResponse
    /\ UNCHANGED <<now, importTime, posts, nextPost, comments, nextComment, created>>

AdminCategoryToggle(s) ==
    /\ s \in DOMAIN categories
    /\ categories' = [categories EXCEPT ![s] = ~@]
    /\ resp' = NoResponse
    /\ UNCHANGED <<now, importTime, posts, nextPost, comments, nextComment, created>>

\* on_delete=SET_NULL of Post.category
AdminCategoryDelete(s) ==
    /\ s \in DOMAIN categories
    /\ categories' = Restrict(categories, DOMAIN categories \ {s})
    /\ posts' = [p \in DOMAIN posts |->
                    IF posts[p].category = s
                    THEN [posts[p] EXCEPT !.category = NULL]
                    ELSE posts[p]]
    /\ resp' = NoResponse
    /\ UNCHANGED <<now, importTime, nextPost, comments, nextComment, created>>

\* ------------------------------------------------------------ PostCreate
PostCreate(u, data) ==
    /\ IF u = Anonymous
       THEN /\ resp' = Response("post_create", u, 0, 0, NULL, "login", 0, <<>>)
            /\ UNCHANGED <<posts, nextPost>>
       ELSE IF data = InvalidPost
       THEN /\ resp' = Response("post_create", u, 0, 0, NULL, "form", 0, <<>>)
            /\ UNCHANGED <<posts, nextPost>>
       ELSE /\ posts' = [p \in DOMAIN posts \cup {nextPost} |->
                            IF p = nextPost THEN PostRow(u, data) ELSE posts[p]]
            /\ nextPost' = nextPost + 1
            /\ resp' = Response("post_create", u, nextPost, 0, NULL,
                                "redirect_profile", 0, <<>>)
    /\ UNCHANGED <<now, importTime, categories, comments, nextComment, created>>

\* ------------------------------------------------- PostUpdate, PostDelete
\* dispatch of PostUpdateView: its own dispatch runs before that of
\* LoginRequiredMixin, which it reaches through super()
\* the ownership test left out
PostUpdateDispatchNoOwner(u, pid) ==
    IF pid \notin DOMAIN posts THEN "not_found"
    ELSE IF u = Anonymous THEN "login"
    ELSE "proceed"

PostUpdateDispatch(u, pid) ==
    IF pid \notin DOMAIN posts THEN "not_found"
    ELSE IF posts[pid].author # u THEN "redirect_detail"
    ELSE IF u = Anonymous THEN "login"
    ELSE "proceed"

PostDeleteDispatch(u, pid) ==
    IF pid \notin DOMAIN posts THEN "not_found"
    ELSE IF posts[pid].author # u THEN "redirect_detail"
    ELSE IF u = Anonymous THEN "login"
    ELSE "proceed"

PostUpdate(u, pid, data) ==
    LET d == PostUpdateDispatch(u, pid) IN
    /\ IF d = "proceed"
       THEN IF data = InvalidPost
            THEN /\ resp' = Response("post_edit", u, pid, 0, NULL, "form", 0, <<>>)
                 /\ UNCHANGED posts
            ELSE /\ posts' = [posts EXCEPT ![pid] = PostRow(posts[pid].author, data)]
                 /\ resp' = Response("post_edit", u, pid, 0, NULL,
                                     "redirect_detail", pid, <<>>)
       ELSE /\ resp' = Response("post_edit", u, pid, 0, NULL, d,
                                IF d = "redirect_detail" THEN pid ELSE 0, <<>>)
            /\ UNCHANGED posts
    /\ UNCHANGED <<now, importTime, categories, nextPost, comments, nextComment,
                   created>>

\* confirmed: the request is the POST of the confirmation page, not its GET
PostDelete(u, pid, confirmed) ==
    LET d == PostDeleteDispatch(u, pid) IN
    /\ IF d = "proceed"
       THEN IF confirmed
            THEN /\ posts' = Restrict(posts, DOMAIN posts \ {pid})
                 /\ comments' = Restrict(comments, CommentsOff(pid))
                 /\ created' = Restrict(created, CommentsOff(pid))
                 /\ resp' = Response("post_delete", u, pid, 0, NULL,
                                     "redirect_index", 0, <<>>)
            ELSE /\ resp' = Response("post_delete", u, pid, 0, NULL, "form", 0, <<>>)
                 /\ UNCHANGED <<posts, comments, created>>
       ELSE /\ resp' = Response("post_delete", u, pid, 0, NULL, d,
                                IF d = "redirect_detail" THEN pid ELSE 0, <<>>)
            /\ UNCHANGED <<posts, comments, created>>
    /\ UNCHANGED <<now, importTime, categories, nextPost, nextComment>>

\* ------------------------------------------------------------ PostDetail
\* PostDetailView.get_queryset, once the post is known to exist
\* the is_published filter left out
PostDetailQuerysetNoFlag(u, pk) ==
    IF posts[pk].author = u
    THEN {p \in DOMAIN posts : p = pk}
    ELSE {p \in DOMAIN posts :
             /\ posts[p].pub_date <= now
             /\ CategoryIsPublished(p)
             /\ p = pk}

PostDetailQueryset(u, pk) ==
    IF posts[pk].author = u
    THEN {p \in DOMAIN posts : p = pk}
    ELSE {p \in DOMAIN posts :
             /\ posts[p].pub_date <= now
             /\ posts[p].is_published
             /\ CategoryIsPublished(p)
             /\ p = pk}

PostDetail(u, pk) ==
    /\ resp' = IF pk \notin DOMAIN posts
               THEN Response("post_detail", u, pk, 0, NULL, "not_found", 0, <<>>)
               ELSE IF pk \in PostDetailQueryset(u, pk)
               THEN Response("post_detail", u, pk, 0, NULL, "ok", pk, <<>>)
               ELSE Response("post_detail", u, pk, 0, NULL, "not_found", 0, <<>>)
    /\ UNCHANGED <<now, importTime>>
    /\ UNCHANGED_Store

\* -------------------------------------------------------------- listings
\* IndexListView.queryset: a class attribute, its timezone.now() is the one
\* of the import of the module
IndexQueryset ==
    {p \in DOMAIN posts :
        /\ posts[p].pub_date <= importTime
        /\ posts[p].is_published
        /\ CategoryIsPublished(p)}

IndexList(u) ==
    /\ resp' = Response("index", u, 0, 0, NULL, "ok", 0,
                        FirstPage(OrderByPubDateDesc(IndexQueryset)))
    /\ UNCHANGED <<now, importTime>>
    /\ UNCHANGED_Store

\* CategoryListView.get_queryset, once the published category is found
CategoryQueryset(s) ==
    {p \in DOMAIN posts :
        /\ posts[p].category = s
        /\ posts[p].pub_date < now
        /\ posts[p].is_published}

CategoryFound(s) == s \in DOMAIN categories /\ categories[s]

CategoryList(u, s) ==
    /\ resp' = IF CategoryFound(s)
               THEN Response("category", u, 0, 0, s, "ok", 0,
                             FirstPage(OrderByPubDateDesc(CategoryQueryset(s))))
               ELSE Response("category", u, 0, 0, s, "not_found", 0, <<>>)
    /\ UNCHANGED <<now, importTime>>
    /\ UNCHANGED_Store

\* -------------------------------------------------------------- comments
\* @login_required, then get_object_or_404(Post, pk=post_id)
\* the login_required decorator left out
AddCommentDispatchNoLogin(u, pid) ==
    IF pid \notin DOMAIN posts THEN "not_found"
    ELSE "proceed"

AddCommentDispatch(u, pid) ==
    IF u = Anonymous THEN "login"
    ELSE IF pid \notin DOMAIN posts THEN "not_found"
    ELSE "proceed"

AddComment(u, pid, text) ==
    LET d == AddCommentDispatch(u, pid) IN
    /\ IF d = "proceed"
       THEN /\ IF text = InvalidComment
               THEN UNCHANGED <<comments, nextComment, created>>
               ELSE /\ comments' =
                         [c \in DOMAIN comments \cup {nextComment} |->
                             IF c = nextComment
                             THEN [author |-> u, post |-> pid, text |-> text]
                             ELSE comments[c]]
                    /\ created' =
                         [c \in DOMAIN created \cup {nextComment} |->
                             IF c = nextComment
                             THEN [by |-> u, post |-> pid]
                             ELSE created[c]]
                    /\ nextComment' = nextComment + 1
            /\ resp' = Response("add_comment", u, pid,
                                IF text = InvalidComment THEN 0 ELSE nextComment, NULL,
                                "redirect_detail", pid, <<>>)
       ELSE /\ resp' = Response("add_comment", u, pid, 0, NULL, d, 0, <<>>)
            /\ UNCHANGED <<comments, nextComment, created>>
    /\ UNCHANGED <<now, importTime, categories, posts, nextPost>>

\* dispatch of CommentUpdateView and CommentDeleteView: LoginRequiredMixin
\* comes first in the bases, then CommentMixin.dispatch.  The value is the
\* outcome and the id the redirect is built with.
CommentDispatch(u, pid, cid) ==
    IF u = Anonymous THEN <<"login", 0>>
    ELSE IF cid \notin DOMAIN comments THEN <<"not_found", 0>>
    ELSE IF comments[cid].author # u THEN <<"redirect_detail", cid>>
    ELSE <<"proceed", 0>>

\* CommentMixin.get_success_url
CommentSuccessTarget(pid, cid) == pid

CommentUpdate(u, pid, cid, text) ==
    LET d == CommentDispatch(u, pid, cid) IN
    /\ IF d[1] = "proceed"
       THEN IF text = InvalidComment
            THEN /\ resp' = Response("comment_edit", u, pid, cid, NULL, "form", 0, <<>>)
                 /\ UNCHANGED comments
            ELSE /\ comments' = [comments EXCEPT ![cid].author = u,
                                                 ![cid].text = text]
                 /\ resp' = Response("comment_edit", u, pid, cid, NULL,
                                     "redirect_detail",
                                     CommentSuccessTarget(pid, cid), <<>>)
       ELSE /\ resp' = Response("comment_edit", u, pid, cid, NULL, d[1], d[2], <<>>)
            /\ UNCHANGED comments
    /\ UNCHANGED <<now, importTime, categories, posts, nextPost, nextComment,
                   created>>

CommentDelete(u, pid, cid, confirmed) ==
    LET d == CommentDispatch(u, pid, cid) IN
    /\ IF d[1] = "proceed"
       THEN IF confirmed
            THEN /\ comments' = Restrict(comments, DOMAIN comments \ {cid})
                 /\ created' = Restrict(created, DOMAIN created \ {cid})
                 /\ resp' = Response("comment_delete", u, pid, cid, NULL,
                                     "redirect_detail",
                                     CommentSuccessTarget(pid, cid), <<>>)
            ELSE /\ resp' = Response("comment_delete", u, pid, cid, NULL,
                                     "form", 0, <<>>)
                 /\ UNCHANGED <<comments, created>>
       ELSE /\ resp' = Response("comment_delete", u, pid, cid, NULL, d[1], d[2], <<>>)
            /\ UNCHANGED <<comments, created>>
    /\ UNCHANGED <<now, importTime, categories, posts, nextPost, nextComment>>

\* -------------------------------------------------------- specifications
\* A request that is refused before its form is read is drawn once, not once
\* for every form it could carry.
\* A valid submission that would create a row is drawn while the run has
\* created fewer rows than its bound.
PostCreateInputs(u, forms, bound) ==
    IF u # Anonymous /\ nextPost <= bound
    THEN forms \cup {InvalidPost} ELSE {InvalidPost}

PostUpdateInputs(u, pid, forms) ==
    IF PostUpdateDispatch(u, pid) = "proceed"
    THEN forms \cup {InvalidPost} ELSE {InvalidPost}

AddCommentInputs(u, pid) ==
    IF AddCommentDispatch(u, pid) = "proceed" /\ nextComment <= MaxComments
    THEN CommentForm \cup {InvalidComment} ELSE {InvalidComment}

CommentUpdateInputs(u, pid, cid) ==
    IF CommentDispatch(u, pid, cid)[1] = "proceed"
    THEN CommentForm \cup {InvalidComment} ELSE {InvalidComment}

\* SpecPosts: post create, edit, delete and detail, the clock and the
\* Category admin; the submitted forms vary in every field but the text.
OwnerPostForm == {data \in PostForm : data.text = "x1"}

NextPosts ==
    \/ Tick
    \/ \E s \in Slugs, pub \in BOOLEAN : AdminCategoryAdd(s, pub)
    \/ \E s \in Slugs : AdminCategoryToggle(s)
    \/ \E s \in Slugs : AdminCategoryDelete(s)
    \/ \E u \in Requesters :
          \E data \in PostCreateInputs(u, OwnerPostForm, MaxPosts) :
             PostCreate(u, data)
    \/ \E u \in Requesters, pid \in PostIds :
          \E data \in PostUpdateInputs(u, pid, OwnerPostForm) :
             PostUpdate(u, pid, data)
    \/ \E u \in Requesters, pid \in PostIds, confirmed \in BOOLEAN :
          PostDelete(u, pid, confirmed)
    \/ \E u \in Requesters, pk \in PostIds : PostDetail(u, pk)

SpecPosts == Init /\ [][NextPosts]_vars

\* SpecSite: SpecPosts with the index and category listings and the restart
\* of the process, over more posts; the submitted forms vary in the fields
\* the listings filter on.
SitePostForm == {data \in PostForm : data.title = "t1" /\ data.text = "x1"}

NextSite ==
    \/ Tick
    \/ Restart
    \/ \E s \in Slugs, pub \in BOOLEAN : AdminCategoryAdd(s, pub)
    \/ \E s \in Slugs : AdminCategoryToggle(s)
    \/ \E s \in Slugs : AdminCategoryDelete(s)
    \/ \E u \in Requesters :
          \E data \in PostCreateInputs(u, SitePostForm, MaxSitePosts) :
             PostCreate(u, data)
    \/ \E u \in Requesters, pid \in SitePostIds :
          \E data \in PostUpdateInputs(u, pid, SitePostForm) :
             PostUpdate(u, pid, data)
    \/ \E u \in Requesters, pid \in SitePostIds, confirmed \in BOOLEAN :
          PostDelete(u, pid, confirmed)
    \/ \E u \in Requesters, pk \in SitePostIds : PostDetail(u, pk)
    \/ \E u \in Requesters : IndexList(u)
    \/ \E u \in Requesters, s \in Slugs : CategoryList(u, s)

SpecSite == Init /\ [][NextSite]_vars

\* SpecComments: the comment handlers over posts that differ in author
\* alone; the comment handlers read no other field of a post.
ThreadPostForm ==
    {data \in PostForm :
        /\ data.title = "t1" /\ data.text = "x1"
        /\ data.pub_date = 0 /\ data.is_published}

NextComments ==
    \/ \E s \in Slugs : AdminCategoryAdd(s, TRUE)
    \/ \E u \in Users :
          \E data \in PostCreateInputs(u, ThreadPostForm, MaxThreadPosts) :
             PostCreate(u, data)
    \/ \E u \in Users, pid \in ThreadPostIds : PostDelete(u, pid, TRUE)
    \/ \E u \in Requesters, pid \in ThreadPostIds :
          \E text \in AddCommentInputs(u, pid) : AddComment(u, pid, text)
    \/ \E u \in Requesters, pid \in ThreadPostIds, cid \in CommentIds :
          \E text \in CommentUpdateInputs(u, pid, cid) :
             CommentUpdate(u, pid, cid, text)
    \/ \E u \in Requesters, pid \in ThreadPostIds, cid \in CommentIds,
          confirmed \in BOOLEAN : CommentDelete(u, pid, cid, confirmed)

SpecComments == Init /\ [][NextComments]_vars

\* ------------------------------------------------------------------ claims
MutationViews == {"post_edit", "post_delete", "comment_edit", "comment_delete"}

Listed(p) == p \in Range(resp.items)

\* C1: post detail answers the post's author with the post whatever its
\* flags are, and answers anyone else with NotFound when the post is not
\* published, or is dated after the request, or has an unpublished category.
C1_DetailPolicy ==
    (resp.view = "post_detail" /\ resp.post \in DOMAIN posts) =>
        LET p == posts[resp.post] IN
        /\ resp.user = p.author => (resp.kind = "ok" /\ resp.target = resp.post)
        /\ ( /\ resp.user # p.author
             /\ \/ ~p.is_published
                \/ p.pub_date > now
                \/ (p.category # NULL /\ ~categories[p.category]) )
           => resp.kind = "not_found"

\* C1 witness: the post is in a published category and dated in the past, but
\* not published, and an anonymous detail request was answered NotFound
C1_Witness ==
    /\ resp.view = "post_detail" /\ resp.user = Anonymous
    /\ resp.post \in DOMAIN posts
    /\ ~posts[resp.post].is_published
    /\ posts[resp.post].pub_date <= now
    /\ CategoryIsPublished(resp.post)
    /\ resp.kind = "not_found"

\* C2: an edit or delete request for an existing post by an authenticated
\* user who is not its author is answered with a redirect to that post's
\* detail view, and the post is stored afterwards exactly as it was before.
C2_NonAuthorPostFrame ==
    [][ ( /\ resp'.view \in {"post_edit", "post_delete"}
          /\ resp'.user \in Users
          /\ resp'.post \in DOMAIN posts
          /\ posts[resp'.post].author # resp'.user )
        => ( /\ resp'.kind = "redirect_detail"
             /\ resp'.target = resp'.post
             /\ resp'.post \in DOMAIN posts'
             /\ posts'[resp'.post] = posts[resp'.post] ) ]_vars

\* C2 witness: an authenticated non-author asked to edit a stored post and
\* was redirected to its detail view
C2_Witness ==
    /\ resp.view = "post_edit" /\ resp.user \in Users
    /\ resp.post \in DOMAIN posts
    /\ posts[resp.post].author # resp.user
    /\ resp.kind = "redirect_detail" /\ resp.target = resp.post

\* C3: an edit or delete request for a stored comment by an authenticated
\* user who is not its author leaves the comments as they are and is answered
\* with a redirect to the detail view of the comment's parent post.
C3_NonAuthorCommentRedirect ==
    [][ ( /\ resp'.view \in {"comment_edit", "comment_delete"}
          /\ resp'.user \in Users
          /\ resp'.comment \in DOMAIN comments
          /\ comments[resp'.comment].author # resp'.user )
        => ( /\ comments' = comments
             /\ resp'.kind = "redirect_detail"
             /\ resp'.target = comments[resp'.comment].post ) ]_vars

\* C4: an anonymous edit or delete request for a post or a comment is
\* redirected to login, whether the target exists or not; so NotFound, the
\* redirect to detail and the mutation are reached by authenticated users only.
C4_AuthenticationFirst ==
    (resp.view \in MutationViews /\ resp.user = Anonymous) => resp.kind = "login"

\* C5: the index lists exactly the posts that pass the visibility policy at
\* the time of the request: a published post of a published category dated
\* at or before now is listed, a post dated after now is not.
C5_IndexAtRequestTime ==
    resp.view = "index" =>
        \A p \in DOMAIN posts :
            /\ ( /\ posts[p].is_published
                 /\ CategoryIsPublished(p)
                 /\ posts[p].pub_date <= now ) => Listed(p)
            /\ posts[p].pub_date > now => ~Listed(p)

\* C6: a published post with no category, dated at or before now, is in the
\* index and is returned by post detail to a requester who is not its author.
C6_NoCategoryIsVisible ==
    \A p \in DOMAIN posts :
        ( /\ posts[p].category = NULL
          /\ posts[p].is_published
          /\ posts[p].pub_date <= now )
        => /\ resp.view = "index" => Listed(p)
           /\ ( /\ resp.view = "post_detail" /\ resp.post = p
                /\ resp.user # posts[p].author ) => resp.kind = "ok"

\* C7: a post that is not published, or is dated in the future, is absent
\* from the index and from its category's listing when the viewer is not its
\* author, and present in them when the viewer is its author.
C7_ListingsByViewer ==
    \A p \in DOMAIN posts :
        (~posts[p].is_published \/ posts[p].pub_date > now)
        => /\ resp.view = "index" =>
                 (Listed(p) <=> resp.user = posts[p].author)
           /\ ( /\ resp.view = "category" /\ resp.kind = "ok"
                /\ posts[p].category = resp.slug )
              => (Listed(p) <=> resp.user = posts[p].author)

\* C8: the category listing is NotFound when no published category has the
\* slug, and otherwise is the index listing of the same moment restricted to
\* the category, in the same order.
C8_CategoryIsIndexRestricted ==
    resp.view = "category" =>
        IF ~CategoryFound(resp.slug)
        THEN resp.kind = "not_found"
        ELSE LET InCategory(p) == posts[p].category = resp.slug IN
             /\ resp.kind = "ok"
             /\ resp.items =
                    SelectSeq(FirstPage(OrderByPubDateDesc(IndexQueryset)), InCategory)

\* C9: an anonymous add_comment request is redirected to login and stores no
\* comment; every stored comment was made by the request of an authenticated
\* user, has that user as its author and the post the request addressed, a
\* stored post, as its parent.
C9_CommentsFromAuthenticated ==
    /\ \A c \in DOMAIN comments :
          /\ created[c].by \in Users
          /\ comments[c].author = created[c].by
          /\ comments[c].post = created[c].post
          /\ comments[c].post \in DOMAIN posts
    /\ (resp.view = "add_comment" /\ resp.user = Anonymous)
          => (resp.kind = "login" /\ resp.comment = 0)

\* C9 witness: an anonymous add_comment request for a stored post that has a
\* comment already was redirected to login
C9_Witness ==
    /\ resp.view = "add_comment" /\ resp.user = Anonymous
    /\ resp.post \in DOMAIN posts
    /\ \E c \in DOMAIN comments : comments[c].post = resp.post
    /\ resp.kind = "login"

\* C10: an edit or delete request by an authenticated user for a stored
\* comment, addressed under a post id that is not the id of the comment's
\* parent post, fails with NotFound and leaves the comments as they are.
C10_CommentScopedToPost ==
    [][ ( /\ resp'.view \in {"comment_edit", "comment_delete"}
          /\ resp'.user \in Users
          /\ resp'.comment \in DOMAIN comments
          /\ resp'.post # comments[resp'.comment].post )
        => ( /\ resp'.kind = "not_found"
             /\ comments' = comments ) ]_vars

====
